---- MODULE Spec2Model ----
(***************************************************************************)
(* Model of the nxy intercepting proxy: the request-dispatch engine        *)
(* (SimpleProxy.forwardRequest / fetch / onResponse), the built-in rule     *)
(* handlers (delay, content, file, forward) and the Cache handler          *)
(* (CacheRule) with its on-disk head/body files.                            *)
(*                                                                         *)
(* Strings are sequences of one-character strings so that the code's       *)
(* string operations (split, substring, replace, concatenation) can be     *)
(* computed.                                                                *)
(***************************************************************************)
EXTENDS Integers, Sequences, FiniteSets, TLC

\* ------------------------------------------------------------------ bounds
\* Requests intercepted per proxy instance.
MaxSeq == 1
\* Requests intercepted by the proxy instance of the cache specification.
MaxCacheSeq == 2
\* Rules registered per proxy instance.
MaxRules == 2
\* Requests for one cached URL intercepted by the proxy instance of the
\* cache-hit specification.
MaxHitSeq == 3
\* Seconds the clock may advance.
MaxTicks == 2

\* ttl is given in seconds and compared in milliseconds (ttl * 1000).
MsPerSec == 1000

\* The proxy instances living in the process.
Proxies == {"A", "B"}

\* ----------------------------------------------------------------- strings
HostX == <<"x">>
PathA == <<"/", "a">>
PathB == <<"/", "b">>
QueryP == <<"?", "p">>
QueryQ == <<"?", "q">>
QueryR == <<"?", "r">>
\* Target of the forward rule: "http://y/v"
ForwardUrl == <<"h", "t", "t", "p", ":", "/", "/", "y", "/", "v">>

\* s starts with pre
StartsWith(s, pre) ==
    /\ Len(pre) <= Len(s)
    /\ SubSeq(s, 1, Len(pre)) = pre

\* String.prototype.substring(n): the string without its first n characters.
Substring(s, n) == IF n >= Len(s) THEN <<>> ELSE SubSeq(s, n + 1, Len(s))

\* Index of the first occurrence of character c in s at or after from, 0 if none.
IndexOf(s, c, from) ==
    IF \E i \in from..Len(s) : s[i] = c
    THEN CHOOSE i \in from..Len(s) : s[i] = c /\ \A j \in from..(i - 1) : s[j] # c
    ELSE 0

\* String.prototype.split("*")
RECURSIVE SplitStar(_)
SplitStar(s) ==
    LET i == IndexOf(s, "*", 1)
    IN  IF i = 0 THEN <<s>>
        ELSE <<SubSeq(s, 1, i - 1)>> \o SplitStar(Substring(s, i))

\* String.prototype.replace(":", "/"): the first ":" only.
ReplaceColon(s) ==
    LET i == IndexOf(s, ":", 1)
    IN  IF i = 0 THEN s ELSE [s EXCEPT ![i] = "/"]

\* -------------------------------------------------------------------- URLs
SchemeHttp == <<"h", "t", "t", "p", ":", "/", "/">>
SchemeHttps == <<"h", "t", "t", "p", "s", ":", "/", "/">>

\* Whether new URL(s) accepts s as an absolute URL.
IsAbsoluteUrl(s) == StartsWith(s, SchemeHttp) \/ StartsWith(s, SchemeHttps)

\* The search component: "" for no query and for a bare "?".
SearchOf(query) == IF Len(query) <= 1 THEN <<>> ELSE query

\* Index of the "?" that starts the query of a request target, 0 if none.
QueryStart(url) == IndexOf(url, "?", 1)

PathOf(url) == IF QueryStart(url) = 0 THEN url ELSE SubSeq(url, 1, QueryStart(url) - 1)
QueryOf(url) == IF QueryStart(url) = 0 THEN <<>> ELSE Substring(url, QueryStart(url) - 1)

\* new URL(reqUrl, protocol + "://" + host)
BaseUrl(protocol, host, reqUrl) ==
    [protocol |-> protocol \o <<":">>,
     host     |-> host,
     pathname |-> PathOf(reqUrl),
     search   |-> SearchOf(QueryOf(reqUrl))]

\* new URL(s) for an absolute URL s.
ParseUrl(s) ==
    LET colon == IndexOf(s, ":", 1)
        rest  == Substring(s, colon + 2)
        slash == IndexOf(rest, "/", 1)
        hostp == IF slash = 0 THEN rest ELSE SubSeq(rest, 1, slash - 1)
        tail  == IF slash = 0 THEN <<"/">> ELSE Substring(rest, slash - 1)
    IN  [protocol |-> SubSeq(s, 1, colon),
         host     |-> hostp,
         pathname |-> PathOf(tail),
         search   |-> SearchOf(QueryOf(tail))]

\* ----------------------------------------------------------------- matcher
\* createMatcher for a string pattern: the scheme is stripped and the pattern
\* is split on "*"; the segments are joined with ".*?" into an unanchored
\* regular expression.  A "." inside a segment stays a regex metacharacter
\* (JSON.stringify escapes quotes and backslashes only).
StripScheme(s) ==
    IF StartsWith(s, SchemeHttps) THEN Substring(s, Len(SchemeHttps))
    ELSE IF StartsWith(s, SchemeHttp) THEN Substring(s, Len(SchemeHttp))
    ELSE s

createMatcher(path) == SplitStar(StripScheme(path))

\* Segment seg occurs in s at position i.
SegAt(seg, s, i) ==
    /\ i + Len(seg) - 1 <= Len(s)
    /\ \A k \in 1..Len(seg) : seg[k] = "." \/ seg[k] = s[i + k - 1]

\* RegExp.prototype.test: the segments occur in s in order, at or after from.
RECURSIVE TestFrom(_, _, _)
TestFrom(segs, s, from) ==
    IF segs = <<>> THEN TRUE
    ELSE \E i \in from..(Len(s) + 1) :
            /\ SegAt(Head(segs), s, i)
            /\ TestFrom(Tail(segs), s, i + Len(Head(segs)))

Test(segs, s) == TestFrom(segs, s, 1)


\* ------------------------------------------------------------------ values
\* A JavaScript value a content rule may be configured with: a string (s, as
\* characters), a number (n), a boolean (b), an object of string properties
\* (o, as <<key, value>> pairs), null or undefined.
Value(type, str, n, b, o) == [type |-> type, s |-> str, n |-> n, b |-> b, o |-> o]
Str(str) == Value("string", str, 0, FALSE, <<>>)
Num(n) == Value("number", <<>>, n, FALSE, <<>>)
Bool(b) == Value("boolean", <<>>, 0, b, <<>>)
Obj(o) == Value("object", <<>>, 0, FALSE, o)
Null == Value("null", <<>>, 0, FALSE, <<>>)
Undefined == Value("undefined", <<>>, 0, FALSE, <<>>)

\* Values the content specification configures.
ContentValues ==
    {Str(<<"w">>), Str(<<>>), Num(0), Num(42), Bool(FALSE), Bool(TRUE),
     Obj(<<<<"k", "v">>>>), Obj(<<>>), Null, Undefined}

\* typeof v, and whether v is truthy.
TypeOf(v) == IF v.type = "null" THEN "object" ELSE v.type
Truthy(v) ==
    CASE v.type = "string"  -> v.s # <<>>
      [] v.type = "number"  -> v.n # 0
      [] v.type = "boolean" -> v.b
      [] v.type = "object"  -> TRUE
      [] OTHER              -> FALSE

Digit(d) == <<"0", "1", "2", "3", "4", "5", "6", "7", "8", "9">>[d + 1]

\* Number.prototype.toString for a natural number.
RECURSIVE Decimal(_)
Decimal(n) == IF n < 10 THEN <<Digit(n)>> ELSE Decimal(n \div 10) \o <<Digit(n % 10)>>

\* v.toString() for a string, number or boolean.
toString(v) ==
    CASE v.type = "string"  -> v.s
      [] v.type = "number"  -> Decimal(v.n)
      [] v.type = "boolean" -> IF v.b THEN <<"t", "r", "u", "e">>
                               ELSE <<"f", "a", "l", "s", "e">>

\* JSON.stringify of an object of string properties.
RECURSIVE JsonMembers(_)
JsonMembers(o) ==
    IF o = <<>> THEN <<>>
    ELSE <<"\"", o[1][1], "\"", ":", "\"", o[1][2], "\"">>
         \o (IF Len(o) > 1 THEN <<",">> ELSE <<>>) \o JsonMembers(Tail(o))
JsonStringify(v) == <<"{">> \o JsonMembers(v.o) \o <<"}">>

\* ------------------------------------------------------------------- rules
\* A rule as SimpleProxy.rules holds it.  name selects the handler; custom
\* rules come from addCustomRule and carry their own match predicate
\* (accept: the host+url strings it accepts).
DelayRule   == [name |-> "delay",   path |-> <<"*">>, args |-> [delay |-> 1]]
ContentRule == [name |-> "content", path |-> PathA, args |-> Str(<<"w">>)]
FileRule    == [name |-> "file",    path |-> <<"x", "*", "b">>, args |-> [path |-> "/mock"]]
ForwardRule == [name |-> "forward", path |-> <<"/", ".">>, args |-> [url |-> ForwardUrl]]
CustomRule  == [name |-> "custom",  path |-> <<>>, args |-> [accept |-> {HostX \o PathA}]]
Unset == -1
\* cache|/a|1 and cache|/b (no ttl)
CacheRuleTtl   == [name |-> "cache", path |-> SchemeHttp \o HostX \o PathA,
                   args |-> [ttl |-> 1, cacheByQuery |-> FALSE]]
CacheRuleNoTtl == [name |-> "cache", path |-> PathB,
                   args |-> [ttl |-> Unset, cacheByQuery |-> FALSE]]

\* Rules the dispatch specification registers.
RuleChoices ==
    {DelayRule, ContentRule,
     [name |-> "file", path |-> <<"x", "/", "a">>, args |-> [path |-> "/missing"]],
     FileRule, ForwardRule, CustomRule}

\* Files the file rule can read: path -> content (chunks).
DiskFiles == [p \in {"/mock"} |-> <<"m1", "m2">>]

\* Rule.match: for addRule, createMatcher(rule.path).test(host + url).
RuleMatch(rule, rq) ==
    IF rule.name = "custom"
    THEN (rq.host \o rq.url) \in rule.args.accept
    ELSE Test(createMatcher(rule.path), rq.host \o rq.url)

\* Array.prototype.find over the rule list: index of the first rule whose
\* matcher accepts the request, 0 if there is none.
LastMatch(rs, rq) ==
    IF \E i \in 1..Len(rs) : RuleMatch(rs[i], rq)
    THEN CHOOSE i \in 1..Len(rs) :
            RuleMatch(rs[i], rq) /\ \A j \in (i + 1)..Len(rs) : ~RuleMatch(rs[j], rq)
    ELSE 0

FindRule(rs, rq) ==
    IF \E i \in 1..Len(rs) : RuleMatch(rs[i], rq)
    THEN CHOOSE i \in 1..Len(rs) :
            RuleMatch(rs[i], rq) /\ \A j \in 1..(i - 1) : ~RuleMatch(rs[j], rq)
    ELSE 0

\* ---------------------------------------------------------------- requests
\* An intercepted request (IncomingMessage): method, url (path and query) and
\* the Host header.
Req(method, url, host) == [method |-> method, url |-> url, host |-> host]

DispatchRequests ==
    {Req(m, u, HostX) : m \in {"GET", "OPTIONS"}, u \in {PathA, PathB}}

\* Responses the upstream server may give.
UpstreamResponses ==
    {[statusCode |-> 200, statusMessage |-> "OK", headers |-> "h1",
      body |-> <<"b1", "b2">>],
     [statusCode |-> 404, statusMessage |-> "Not Found", headers |-> "h2",
      body |-> <<"c1", "c2">>]}

\* ------------------------------------------------------------- rule results
\* RuleResult values, tagged by what the engine's coercion distinguishes.
RtUndefined == [t |-> "undefined"]
RtUrl(u)    == [t |-> "url", url |-> u]
RtString(v) == [t |-> "string", v |-> v]
\* a plain object that is no RuleResponse, such as { statusCode: 404 }
RtObject(c) == [t |-> "object", statusCode |-> c]
\* a Readable that is the result itself
RtStream(src) == [t |-> "stream", src |-> src]
\* an instance of RuleResponse; statusCode 0 stands for undefined
RtResponse(c, m, h, b) ==
    [t |-> "response", statusCode |-> c, statusMessage |-> m, headers |-> h, body |-> b]

\* Bodies: inline string, lazy stream, or none ([t |-> "none"]).
InlineBody(v) == [t |-> "inline", v |-> v]
StreamBody(src) == [t |-> "stream", src |-> src]

\* What a custom rule's request hook may return (any RuleResult).
CustomResults ==
    {[t |-> "false"], [t |-> "true"], [t |-> "null"], RtUndefined,
     RtUrl(ParseUrl(ForwardUrl)),
     RtString("s"), [t |-> "error"], RtObject(404),
     RtResponse(0, "", "", [t |-> "none"]), RtResponse(201, "Created", "hc", InlineBody("r"))}


\* ------------------------------------------------------------------- state
VARIABLES
    rules,      \* SimpleProxy.rules of each proxy instance
    seq,        \* SimpleProxy.seq of each proxy instance
    reqs,       \* per proxy instance: the requests intercepted, indexed by seq
    requests,   \* CacheRule.requests (static): seq -> the cache file selected
    files,      \* the cache directory: file path -> content
    now,        \* Date.now(), in milliseconds
    probe,      \* inputs and results of the cache-key computation under test
    inspector,  \* the Inspector of each proxy instance (options.inspector)
    conn        \* listeners, CONNECT bridges and error-sink notifications

vars == <<rules, seq, reqs, requests, files, now, probe, inspector, conn>>

\* f with key k set to v
Put(f, k, v) == [x \in (DOMAIN f) \cup {k} |-> IF x = k THEN v ELSE f[x]]

\* ------------------------------------------------------------- cache files
\* crypto md5 digest of the search string.  A digest is shorter than its
\* input, so distinct inputs can share one: QueryR stands for a query that
\* collides with QueryP.
Md5(search) ==
    CASE search = QueryP -> <<"d1">>
      [] search = QueryQ -> <<"d2">>
      [] search = QueryR -> <<"d1">>
      [] OTHER -> <<"d0">>

\* path.resolve drops trailing slashes.
RECURSIVE StripTrailingSlash(_)
StripTrailingSlash(s) ==
    IF Len(s) > 0 /\ s[Len(s)] = "/" THEN StripTrailingSlash(SubSeq(s, 1, Len(s) - 1))
    ELSE s

\* CacheRule.getCacheFile, with the query hashed into the name always.
getCacheFileByQuery(fs, rq, cacheByQuery) ==
    LET url  == BaseUrl(<<"h", "t", "t", "p">>, rq.host, rq.url)
        dir  == StripTrailingSlash(ReplaceColon(url.host \o url.pathname))
        hash == Md5(url.search)
        name == <<rq.method>> \o <<".">> \o hash
    IN  [dir      |-> dir,
         headFile |-> dir \o <<"/">> \o name \o <<".head">>,
         bodyFile |-> dir \o <<"/">> \o name \o <<".body">>,
         exist    |-> (dir \o <<"/">> \o name \o <<".head">>) \in DOMAIN fs]

\* CacheRule.getCacheFile: the entry's directory and files for a request.
getCacheFile(fs, rq, cacheByQuery) ==
    LET url  == BaseUrl(<<"h", "t", "t", "p">>, rq.host, rq.url)
        dir  == StripTrailingSlash(ReplaceColon(url.host \o url.pathname))
        hash == IF cacheByQuery /\ url.search # <<>> THEN Md5(url.search) ELSE <<>>
        name == IF hash # <<>> THEN <<rq.method>> \o <<".">> \o hash ELSE <<rq.method>>
    IN  [dir      |-> dir,
         headFile |-> dir \o <<"/">> \o name \o <<".head">>,
         bodyFile |-> dir \o <<"/">> \o name \o <<".body">>,
         exist    |-> (dir \o <<"/">> \o name \o <<".head">>) \in DOMAIN fs]

\* The freshness test of CacheRule.onRequest, with > for >=.
IsFreshStrict(ttl, head, t) == ttl = Unset \/ head.updateTime + ttl * MsPerSec > t

\* The freshness test of CacheRule.onRequest.
IsFresh(ttl, head, t) == ttl = Unset \/ head.updateTime + ttl * MsPerSec >= t


\* ---------------------------------------------------------------- inspector
\* Date.now() is an epoch far beyond every delay of the program and beyond
\* the largest delay a timer takes, plus `now`.  A time value is kept as an
\* offset v; abs tells whether the epoch is part of it.
SaveDelay == 2000

\* setTimeout with a delay above 2^31 - 1 (any value holding the epoch) arms
\* the timer with a delay of 1.
OverflowDelay == 1

\* new Inspector(args) at time t, or no inspector (attached = FALSE).
NewInspector(attached, t) ==
    [attached     |-> attached,
     entries      |-> <<>>,                       \* the journal: seq -> entry
     nextSaveTime |-> [abs |-> TRUE, v |-> t],    \* Date.now() at construction
     timer        |-> 0,                          \* this.timer (0: unset)
     timers       |-> {},                         \* timers armed and not cleared
     ids          |-> 0,
     writes       |-> {}]                         \* writes of index.json so far

\* Inspector.saveEntries at time t.  timeLeft is nextSaveTime - Date.now():
\* a nextSaveTime without the epoch is below every Date.now().
saveEntries(ins, t) ==
    LET nst0    == ins.nextSaveTime
        neg     == IF nst0.abs THEN nst0.v - t < 0 ELSE TRUE
        within  == IF nst0.abs THEN nst0.v - t <= SaveDelay ELSE TRUE
        nst1    == IF neg THEN [abs |-> FALSE, v |-> SaveDelay] ELSE nst0
        nst2    == IF within THEN [nst1 EXCEPT !.v = @ + SaveDelay] ELSE nst1
        kept    == IF ~within /\ ins.timer # 0
                   THEN {x \in ins.timers : x.id # ins.timer}
                   ELSE ins.timers
        wait    == IF nst2.abs THEN OverflowDelay ELSE nst2.v
        id      == ins.ids + 1
    IN  [ins EXCEPT !.nextSaveTime = nst2,
                    !.timers = kept \cup {[id |-> id, due |-> t + wait, at |-> t]},
                    !.timer = id,
                    !.ids = id]

\* The calls the engine makes on the inspector.
OnRequestCall(s, ruleName) == [t |-> "onRequest", seq |-> s, rule |-> ruleName]
OnRespondCall(response) == [t |-> "onRespond", err |-> FALSE, res |-> response]
OnRespondErrCall == [t |-> "onRespond", err |-> TRUE]

\* The headers object of the journal entry is the request's own headers
\* object (line 63 copies the reference): ref names the request it belongs to.
HeadersOf(s) == [ref |-> s]

\* Inspector.onRequest (lines 63-77): the journal entry of seq s.
NewEntry(s, rq, ruleName) ==
    [seq  |-> s,
     req  |-> [url |-> rq.url, method |-> rq.method, httpVersion |-> "1.1",
               headers |-> HeadersOf(s)],
     res  |-> [headers |-> "", statusCode |-> 0, statusMessage |-> ""],
     rule |-> ruleName]

\* Inspector.onRespond (lines 87-93): the res fields of the entry.
EntryRes(call) ==
    IF call.err
    THEN [headers |-> "", statusCode |-> 0, statusMessage |-> ""]
    ELSE [headers |-> call.res.headers, statusCode |-> call.res.statusCode,
          statusMessage |-> call.res.statusMessage]

\* One call of the engine on inspector ins, for the request rq of seq s.
InspectorCall(ins, s, rq, call, t) ==
    IF call.t = "onRequest"
    THEN saveEntries([ins EXCEPT !.entries = Put(@, s, NewEntry(s, rq, call.rule))], t)
    ELSE saveEntries([ins EXCEPT !.entries =
                         Put(@, s, [ins.entries[s] EXCEPT !.res = EntryRes(call)])], t)

\* The calls of one handler run, in order.
RECURSIVE InspectorCalls(_, _, _, _, _)
InspectorCalls(ins, s, rq, calls, t) ==
    IF calls = <<>> THEN ins
    ELSE InspectorCalls(InspectorCall(ins, s, rq, Head(calls), t), s, rq, Tail(calls), t)


\* --------------------------------------------------------- request records
NoResponse == [t |-> "none"]
NoCache == [t |-> "none"]

\* The state of one intercepted request: the request (req), the URL computed
\* at interception (url), the rule found (rule, 0 for none), the client
\* response sink (res), where dispatch stands (pc) and what it has done.
NewRequest(rq, url, i) ==
    [req     |-> rq,
     orig    |-> rq,
     url     |-> url,
     rule    |-> i,
     pc      |-> "intercepted",
     paused  |-> TRUE,
     hooks   |-> {},        \* rules whose request hook was invoked
     rhooks  |-> {},        \* rules whose response hook was invoked
     rt      |-> [t |-> "pending"],
     fetched |-> <<>>,      \* upstream fetches started: target URL and Host
     up      |-> NoResponse,
     src     |-> [t |-> "none"],     \* the stream piped into res
     rpos    |-> 0,
     wfile   |-> <<>>,      \* body file the upstream response is piped into
     cache   |-> NoCache,   \* what the cache request hook selected and read
     errors  |-> 0,         \* onError(FORWARD, ...) notifications
     seq     |-> 0,         \* the seq assigned at interception
     insp    |-> FALSE,     \* an inspector is attached
     ev      |-> <<>>,      \* what has happened to the request, in order
     icalls  |-> <<>>,      \* inspector calls of the handler run under way
     ipipe   |-> "none",    \* the inspector's pipeline into <seq>.res
     ifile   |-> <<>>,      \* content of <seq>.res
     iend    |-> 0,         \* onResponseEnd calls
     body    |-> <<"q1">>,  \* the request body the client sends, in chunks
     rin     |-> 0,         \* request body chunks the request stream emitted
     upbody  |-> <<>>,      \* request body chunks piped into the upstream request
     ireq    |-> <<>>,      \* content of <seq>.req
     res     |-> [statusCode |-> 0, statusMessage |-> "", headers |-> {},
                  flushed |-> FALSE, body |-> <<>>, ended |-> FALSE,
                  destroyed |-> FALSE]]

\* Lines 263-265 without req.pause(): the data listener the inspector adds
\* sets the request flowing.
ObserveNoPause(r, s, attached, ruleName) ==
    IF attached
    THEN [r EXCEPT !.seq = s, !.insp = TRUE, !.ev = <<"Inspector.onRequest">>,
                   !.icalls = <<OnRequestCall(s, ruleName)>>, !.paused = FALSE]
    ELSE [r EXCEPT !.seq = s, !.paused = FALSE]

\* Lines 263-265: the seq is assigned, the request paused (NewRequest) and
\* the inspector told.
Observe(r, s, attached, ruleName) ==
    IF attached
    THEN [r EXCEPT !.seq = s, !.insp = TRUE, !.ev = <<"Inspector.onRequest">>,
                   !.icalls = <<OnRequestCall(s, ruleName)>>]
    ELSE [r EXCEPT !.seq = s]

CorsHeaders ==
    {"Access-Control-Allow-Headers", "Access-Control-Allow-Methods",
     "Access-Control-Allow-Origin"}

\* The headers object of a response as header names/values on the sink.
HeaderSet(h) == IF h = "" THEN {} ELSE {h}

\* ------------------------------------------------------------ rule handlers
\* Outcome of calling a request hook: a value (how = "value"), a pending
\* promise (how = "pending") or an exception (how = "throw"); req is the
\* request as the hook leaves it, rec what it stores under
\* CacheRule.requests[seq], cache what the cache hook selected.
Outcome(how, rt, rq, rec, cache) ==
    [how |-> how, rt |-> rt, req |-> rq, rec |-> rec, cache |-> cache]

NoRec == [t |-> "none"]

\* rules.delay
delay(rq, args) ==
    IF args.delay <= 0
    THEN {Outcome("value", RtUndefined, rq, NoRec, NoCache)}
    ELSE {Outcome("pending", RtUndefined, rq, NoRec, NoCache)}

\* rules.content: args?.toString() is undefined for null and undefined.
content(rq, args) ==
    {Outcome("value",
             IF Truthy(args) /\ TypeOf(args) = "object"
             THEN RtString(JsonStringify(args))
             ELSE IF args.type \in {"null", "undefined"} THEN RtUndefined
             ELSE RtString(toString(args)),
             rq, NoRec, NoCache)}

\* rules.file
file(rq, args) ==
    IF args.path = "" \/ args.path \notin DOMAIN DiskFiles
    THEN {Outcome("value", RtObject(404), rq, NoRec, NoCache)}
    ELSE {Outcome("value", RtStream([t |-> "disk", path |-> args.path]), rq, NoRec, NoCache)}

\* rules.forward
forward(rq, args) ==
    IF ~IsAbsoluteUrl(args.url)
    THEN {Outcome("throw", RtUndefined, rq, NoRec, NoCache)}
    ELSE LET uri == ParseUrl(args.url)
             cut == Len(uri.protocol \o <<":", "/", "/">> \o rq.host)
         IN  {Outcome("value", RtUrl(uri),
                      [rq EXCEPT !.url = Substring(args.url, cut), !.host = uri.host],
                      NoRec, NoCache)}

\* No head file read.
NoHead == [t |-> "none"]

\* CacheRule.onRequest with the seq->key record stored before the entry is
\* looked at, on a hit as on a miss.
cacheOnRequestRecordFirst(fs, t, rq, args) ==
    LET f    == getCacheFile(fs, rq, args.cacheByQuery)
        head == fs[f.headFile]
    IN  IF f.exist /\ IsFresh(args.ttl, head, t)
        THEN {Outcome("value",
                      RtResponse(head.statusCode, head.statusMessage, head.headers,
                                 IF f.bodyFile \in DOMAIN fs
                                 THEN StreamBody([t |-> "bodyfile", path |-> f.bodyFile])
                                 ELSE InlineBody("")),
                      rq, [t |-> "rec", file |-> f],
                      [t |-> "hit", file |-> f, head |-> head, at |-> t])}
        ELSE {Outcome("value", RtUndefined, rq, [t |-> "rec", file |-> f],
                      [t |-> "miss", file |-> f,
                       head |-> IF f.exist THEN head ELSE NoHead, at |-> t])}

\* CacheRule.onRequest.  The cache field notes what the hook saw: the entry
\* selected, the head it read (if the head file exists) and the time.
cacheOnRequest(fs, t, rq, args) ==
    LET f    == getCacheFile(fs, rq, args.cacheByQuery)
        head == fs[f.headFile]
    IN  IF f.exist /\ IsFresh(args.ttl, head, t)
        THEN {Outcome("value",
                      RtResponse(head.statusCode, head.statusMessage, head.headers,
                                 IF f.bodyFile \in DOMAIN fs
                                 THEN StreamBody([t |-> "bodyfile", path |-> f.bodyFile])
                                 ELSE InlineBody("")),
                      rq, NoRec,
                      [t |-> "hit", file |-> f, head |-> head, at |-> t])}
        ELSE {Outcome("value", RtUndefined, rq, [t |-> "rec", file |-> f],
                      [t |-> "miss", file |-> f,
                       head |-> IF f.exist THEN head ELSE NoHead, at |-> t])}

\* A custom rule's request hook: any result, now or later, or an exception.
customOnRequest(rq) ==
    {Outcome("value", v, rq, NoRec, NoCache) : v \in CustomResults}
    \cup {Outcome("throw", RtUndefined, rq, NoRec, NoCache),
          Outcome("pending", RtUndefined, rq, NoRec, NoCache)}

\* rule.handler.onRequest({seq, req, args})
onRequestHook(rule, fs, t, rq) ==
    CASE rule.name = "delay"   -> delay(rq, rule.args)
      [] rule.name = "content" -> content(rq, rule.args)
      [] rule.name = "file"    -> file(rq, rule.args)
      [] rule.name = "forward" -> forward(rq, rule.args)
      [] rule.name = "cache"   -> cacheOnRequest(fs, t, rq, rule.args)
      [] OTHER                 -> customOnRequest(rq)

\* Values a pending hook promise may settle with ("reject" for a rejection).
Rejected == [t |-> "reject"]
SettleValues(rule) ==
    IF rule.name = "delay" THEN {RtUndefined} ELSE CustomResults \cup {Rejected}

\* ---------------------------------------------------------- dispatch engine
\* handleError of forwardRequest, for an error e that is set.
handleError(r) ==
    [r EXCEPT !.res.destroyed = TRUE, !.errors = @ + 1, !.pc = "destroyed",
              !.ipipe = IF @ = "piping" THEN "failed" ELSE @]

\* inspector.onRespond(seq, response) (line 339): the entry's res fields are
\* set and a stream body is also piped into <seq>.res.
Respond(r, response) ==
    IF r.insp
    THEN [r EXCEPT !.ev = Append(@, "Inspector.onRespond"),
                   !.icalls = Append(@, OnRespondCall(response)),
                   !.ipipe = IF response.body.t = "stream" THEN "piping" ELSE @]
    ELSE r

\* inspector.onRespond(seq, err) of the catch (line 348).
RespondErr(r) ==
    IF r.insp
    THEN [r EXCEPT !.ev = Append(@, "Inspector.onRespond"),
                   !.icalls = Append(@, OnRespondErrCall)]
    ELSE r

\* SimpleProxy.onResponse: write the head, then pipe a stream body or end
\* with the inline body.  res.end throws for a chunk that is neither a
\* string nor a buffer; the catch hands the error to handleError.
onResponse(r, response) ==
    LET headed == Respond([r EXCEPT
                     !.res.statusCode = IF response.statusCode = 0 THEN 500
                                        ELSE response.statusCode,
                     !.res.statusMessage = response.statusMessage,
                     !.res.headers = @ \cup HeaderSet(response.headers)],
                          response)
    IN  CASE response.body.t = "stream" ->
                [headed EXCEPT !.pc = "streaming", !.src = response.body.src]
          [] response.body.t = "inline" ->
                [headed EXCEPT !.pc = "ended", !.res.flushed = TRUE,
                               !.res.body = <<response.body.v>>, !.res.ended = TRUE]
          [] response.body.t = "none" ->
                [headed EXCEPT !.pc = "ended", !.res.flushed = TRUE,
                               !.res.ended = TRUE]
          [] OTHER -> RespondErr(handleError(headed))

\* SimpleProxy.fetch: the upstream request is sent to url with the request's
\* method and headers, and the request body is piped into it.
fetch(r, url) ==
    [r EXCEPT !.fetched = Append(@, [url |-> url, host |-> r.req.host,
                                      method |-> r.req.method]),
              !.pc = "fetching", !.paused = FALSE, !.ev = Append(@, "fetch")]

\* The body of the response synthesized from a hook result.
SynthBody(rt) ==
    CASE rt.t = "string" -> InlineBody(rt.v)
      [] rt.t = "stream" -> StreamBody(rt.src)
      [] OTHER -> [t |-> rt.t]

\* The response shape the engine coerces a hook result into (lines 287-290).
Coerce(rt) ==
    IF rt.t = "response"
    THEN [statusCode |-> IF rt.statusCode = 0 THEN 200 ELSE rt.statusCode,
          statusMessage |-> rt.statusMessage, headers |-> rt.headers,
          body |-> rt.body]
    ELSE [statusCode |-> IF rt.t = "error" THEN 500 ELSE 200,
          statusMessage |-> "", headers |-> "", body |-> SynthBody(rt)]

\* The then-callback of forwardRequest with every result but false suppressed.
DispatchFetchAlways(r, rt) ==
    IF rt.t \in {"false", "null", "undefined", "true", "url"}
    THEN fetch([r EXCEPT !.rt = rt], IF rt.t = "url" THEN rt.url ELSE r.url)
    ELSE onResponse([r EXCEPT !.rt = rt, !.paused = FALSE,
                              !.ev = Append(@, "synthesize"),
                              !.res.headers = @ \cup {"Access-Control-Allow-Origin"}],
                    Coerce(rt))

\* The then-callback of forwardRequest (lines 280-294): coerce the result.
Dispatch(r, rt) ==
    CASE rt.t = "false" -> [r EXCEPT !.rt = rt, !.pc = "suppressed"]
      [] rt.t \in {"null", "undefined", "true", "url"} ->
            fetch([r EXCEPT !.rt = rt], IF rt.t = "url" THEN rt.url ELSE r.url)
      [] OTHER ->
            onResponse([r EXCEPT !.rt = rt, !.paused = FALSE,
                                 !.ev = Append(@, "synthesize"),
                                 !.res.headers = @ \cup {"Access-Control-Allow-Origin"}],
                       Coerce(rt))


\* ------------------------------------------------------------------ actions
Http == <<"h", "t", "t", "p">>

\* The OPTIONS short-circuit of forwardRequest, taken for every OPTIONS request.
IsPreflightUnmatched(i, rq) == rq.method = "OPTIONS"

\* The OPTIONS short-circuit of forwardRequest (line 267).
IsPreflight(i, rq) == i # 0 /\ rq.method = "OPTIONS"

\* Lines 268-275: 204 with the permissive CORS headers.
Preflight(r) ==
    [r EXCEPT !.paused = FALSE, !.pc = "ended", !.ev = Append(@, "preflight"),
              !.res.statusCode = 204, !.res.headers = CorsHeaders,
              !.res.flushed = TRUE, !.res.ended = TRUE]

\* What forwardRequest leaves of request r after the hook outcome o of rule i:
\* a value is dispatched at once (the then-callback runs before any other
\* event), a pending promise leaves the request waiting, an exception leaves
\* forwardRequest uncaught.
AfterHook(r, i, o) ==
    LET r1 == [r EXCEPT !.hooks = {i}, !.req = o.req, !.cache = o.cache,
                        !.ev = Append(@, "onRequest")]
    IN  CASE o.how = "value"   -> Dispatch(r1, o.rt)
          [] o.how = "pending" -> [r1 EXCEPT !.pc = "hook"]
          [] OTHER             -> [r1 EXCEPT !.pc = "uncaught"]

\* SimpleProxy.addRule
AddRule(p, rule) ==
    /\ Len(rules[p]) < MaxRules
    /\ seq[p] = 0
    /\ rules' = [rules EXCEPT ![p] = Append(@, rule)]
    /\ UNCHANGED <<seq, reqs, requests, files, now, probe, inspector, conn>>

\* SimpleProxy.addCustomRule
AddCustomRule(p, rule) ==
    /\ Len(rules[p]) < MaxRules
    /\ seq[p] = 0
    /\ rules' = [rules EXCEPT ![p] = Append(@, rule)]
    /\ UNCHANGED <<seq, reqs, requests, files, now, probe, inspector, conn>>

\* The request record r is stored under seq s of proxy p once its handler
\* run is over, and the inspector has taken the calls the run made.
Told(p, s, r) == InspectorCalls(inspector[p], s, r.orig, r.icalls, now)
Settled(r) == [r EXCEPT !.icalls = <<>>]

\* this.rules[i].name, undefined for no rule.
RuleName(rs, i) == IF i = 0 THEN "" ELSE rs[i].name

\* SimpleProxy.forwardRequest for an intercepted request rq.
forwardRequest(p, rq) ==
    /\ LET i   == FindRule(rules[p], rq)
           s   == seq[p] + 1
           r0  == Observe(NewRequest(rq, BaseUrl(Http, rq.host, rq.url), i), s,
                          inspector[p].attached, RuleName(rules[p], i))
       IN  /\ seq' = [seq EXCEPT ![p] = s]
           /\ IF IsPreflight(i, rq)
              THEN /\ reqs' = [reqs EXCEPT ![p] = Append(@, Settled(Preflight(r0)))]
                   /\ inspector' = [inspector EXCEPT ![p] = Told(p, s, Preflight(r0))]
                   /\ UNCHANGED requests
              ELSE IF i = 0
              THEN /\ reqs' = [reqs EXCEPT ![p] = Append(@, Settled(Dispatch(r0, RtUndefined)))]
                   /\ inspector' = [inspector EXCEPT ![p] = Told(p, s, Dispatch(r0, RtUndefined))]
                   /\ UNCHANGED requests
              ELSE \E o \in onRequestHook(rules[p][i], files, now, rq) :
                      /\ reqs' = [reqs EXCEPT ![p] = Append(@, Settled(AfterHook(r0, i, o)))]
                      /\ inspector' = [inspector EXCEPT ![p] = Told(p, s, AfterHook(r0, i, o))]
                      /\ requests' = IF o.rec.t = "rec"
                                     THEN Put(requests, s, o.rec.file)
                                     ELSE requests
    /\ UNCHANGED <<rules, files, now, probe, conn>>

\* The hook's promise settles: the then-callback runs, or the rejection
\* stays unhandled (forwardRequest attaches no rejection handler).
HookSettle(p, s) ==
    /\ s \in 1..Len(reqs[p])
    /\ reqs[p][s].pc = "hook"
    /\ \E v \in SettleValues(rules[p][reqs[p][s].rule]) :
          LET r2 == IF v = Rejected THEN [reqs[p][s] EXCEPT !.rt = v, !.pc = "unhandled"]
                    ELSE Dispatch(reqs[p][s], v)
          IN  /\ reqs' = [reqs EXCEPT ![p][s] = Settled(r2)]
              /\ inspector' = [inspector EXCEPT ![p] = Told(p, s, r2)]
    /\ UNCHANGED <<rules, seq, requests, files, now, probe, conn>>

\* A write stream writes chunk at position pos of a file's content.
WriteAt(data, pos, chunk) ==
    [k \in 1..(IF pos > Len(data) THEN pos ELSE Len(data)) |->
        IF k = pos THEN chunk ELSE IF k <= Len(data) THEN data[k] ELSE "hole"]

\* The head file CacheRule.onResponse writes; by names the request whose
\* upstream response it records.
HeadOf(resp, t, p, s) ==
    [statusCode |-> resp.statusCode, statusMessage |-> resp.statusMessage,
     headers |-> resp.headers, updateTime |-> t, by |-> <<p, s>>]

\* The emitter's input for an upstream response: the response is the stream.
UpstreamShape(resp) ==
    [statusCode |-> resp.statusCode, statusMessage |-> resp.statusMessage,
     headers |-> resp.headers, body |-> StreamBody([t |-> "upstream"])]

\* The response callback of fetch (lines 314-317) for a rule without a
\* response hook, or for no rule.
UpstreamResponse(p, s, resp) ==
    /\ s \in 1..Len(reqs[p])
    /\ reqs[p][s].pc = "fetching"
    /\ IF reqs[p][s].rule = 0 THEN TRUE
       ELSE rules[p][reqs[p][s].rule].name \notin {"cache", "custom"}
    /\ LET r2 == onResponse([reqs[p][s] EXCEPT !.up = resp], UpstreamShape(resp))
       IN  /\ reqs' = [reqs EXCEPT ![p][s] = Settled(r2)]
           /\ inspector' = [inspector EXCEPT ![p] = Told(p, s, r2)]
    /\ UNCHANGED <<rules, seq, requests, files, now, probe, conn>>

\* The response callback of fetch under a cache rule: CacheRule.onResponse
\* writes the head file of the entry recorded under seq and pipes the body
\* into its body file, then the engine emits the response.
UpstreamResponseCache(p, s, resp) ==
    /\ s \in 1..Len(reqs[p])
    /\ reqs[p][s].pc = "fetching"
    /\ reqs[p][s].rule # 0
    /\ rules[p][reqs[p][s].rule].name = "cache"
    /\ IF s \in DOMAIN requests
       THEN LET f  == requests[s]
                r2 == onResponse([reqs[p][s] EXCEPT !.up = resp,
                                                    !.rhooks = {reqs[p][s].rule},
                                                    !.ev = Append(@, "onResponse"),
                                                    !.wfile = f.bodyFile],
                                 UpstreamShape(resp))
            IN  /\ files' = Put(Put(files, f.headFile, HeadOf(resp, now, p, s)),
                                f.bodyFile, <<>>)
                /\ reqs' = [reqs EXCEPT ![p][s] = Settled(r2)]
                /\ inspector' = [inspector EXCEPT ![p] = Told(p, s, r2)]
       ELSE /\ reqs' = [reqs EXCEPT ![p][s] = [@ EXCEPT !.up = resp, !.pc = "uncaught",
                                                        !.ev = Append(@, "onResponse")]]
            /\ UNCHANGED <<files, inspector>>
    /\ UNCHANGED <<rules, seq, requests, now, probe, conn>>

\* The response callback of fetch under a custom rule: its response hook
\* returns, or throws out of the callback.
UpstreamResponseCustom(p, s, resp) ==
    /\ s \in 1..Len(reqs[p])
    /\ reqs[p][s].pc = "fetching"
    /\ reqs[p][s].rule # 0
    /\ rules[p][reqs[p][s].rule].name = "custom"
    /\ \E throws \in BOOLEAN :
          LET r1 == [reqs[p][s] EXCEPT !.up = resp, !.rhooks = {reqs[p][s].rule},
                                       !.ev = Append(@, "onResponse")]
              r2 == IF throws THEN [r1 EXCEPT !.pc = "uncaught"]
                    ELSE onResponse(r1, UpstreamShape(resp))
          IN  /\ reqs' = [reqs EXCEPT ![p][s] = Settled(r2)]
              /\ inspector' = [inspector EXCEPT ![p] = Told(p, s, r2)]
    /\ UNCHANGED <<rules, seq, requests, files, now, probe, conn>>

\* The upstream request fails: the pipeline callback of fetch (lines 319-323).
UpstreamError(p, s) ==
    /\ s \in 1..Len(reqs[p])
    /\ reqs[p][s].pc = "fetching"
    /\ reqs' = [reqs EXCEPT ![p][s] = handleError(@)]
    /\ UNCHANGED <<rules, seq, requests, files, now, probe, inspector, conn>>

\* pipeline(stream, res): the next chunk of an upstream response reaches the
\* client and, under a cache rule, the body file; the last chunk ends res.
PumpUpstream(p, s) ==
    /\ s \in 1..Len(reqs[p])
    /\ reqs[p][s].pc = "streaming"
    /\ reqs[p][s].src.t = "upstream"
    /\ LET r     == reqs[p][s]
           pos   == r.rpos + 1
           chunk == r.up.body[pos]
           last  == pos = Len(r.up.body)
       IN  /\ reqs' = [reqs EXCEPT ![p][s] =
                         [r EXCEPT !.rpos = pos, !.res.flushed = TRUE,
                                   !.ev = Append(@, "body"),
                                   !.ifile = IF r.ipipe = "piping" THEN Append(@, chunk)
                                             ELSE @,
                                   !.res.body = Append(@, chunk),
                                   !.res.ended = last,
                                   !.pc = IF last THEN "ended" ELSE "streaming"]]
           /\ files' = IF r.wfile # <<>> /\ r.wfile \in DOMAIN files
                       THEN Put(files, r.wfile, WriteAt(files[r.wfile], pos, chunk))
                       ELSE files
    /\ UNCHANGED <<rules, seq, requests, now, probe, inspector, conn>>

\* pipeline(stream, res) for a file read stream: the file is read to its
\* present end and res ends.
PumpFile(p, s) ==
    /\ s \in 1..Len(reqs[p])
    /\ reqs[p][s].pc = "streaming"
    /\ reqs[p][s].src.t \in {"disk", "bodyfile"}
    /\ LET r    == reqs[p][s]
           data == IF r.src.t = "disk" THEN DiskFiles[r.src.path] ELSE files[r.src.path]
       IN  reqs' = [reqs EXCEPT ![p][s] =
                      [r EXCEPT !.rpos = Len(data), !.res.flushed = TRUE,
                                !.ev = Append(@, "body"),
                                !.ifile = IF r.ipipe = "piping" THEN data ELSE @,
                                !.res.body = data, !.res.ended = TRUE, !.pc = "ended"]]
    /\ UNCHANGED <<rules, seq, requests, files, now, probe, inspector, conn>>

\* pipeline(stream, res) fails (the client went away, the source broke off).
StreamError(p, s) ==
    /\ s \in 1..Len(reqs[p])
    /\ reqs[p][s].pc = "streaming"
    /\ reqs' = [reqs EXCEPT ![p][s] = handleError(@)]
    /\ UNCHANGED <<rules, seq, requests, files, now, probe, inspector, conn>>

\* onResponseEnd called as soon as the response is recorded.
InspectorEndEarly(p, s) ==
    /\ s \in 1..Len(reqs[p])
    /\ reqs[p][s].ipipe = "piping"
    /\ reqs' = [reqs EXCEPT ![p][s] =
                  [@ EXCEPT !.ipipe = "done", !.iend = @ + 1,
                            !.ev = Append(@, "onResponseEnd")]]
    /\ UNCHANGED <<rules, seq, requests, files, now, probe, inspector, conn>>

\* The inspector's pipeline into <seq>.res completes once the source has
\* ended and the file is written: its callback calls onResponseEnd.
InspectorEnd(p, s) ==
    /\ s \in 1..Len(reqs[p])
    /\ reqs[p][s].ipipe = "piping"
    /\ reqs[p][s].pc = "ended"
    /\ reqs' = [reqs EXCEPT ![p][s] =
                  [@ EXCEPT !.ipipe = "done", !.iend = @ + 1,
                            !.ev = Append(@, "onResponseEnd")]]
    /\ UNCHANGED <<rules, seq, requests, files, now, probe, inspector, conn>>

\* The inspector's pipeline fails (<seq>.res cannot be written): pipeline
\* destroys the source, so a response still streaming fails with it.
InspectorError(p, s) ==
    /\ s \in 1..Len(reqs[p])
    /\ reqs[p][s].ipipe = "piping"
    /\ reqs' = [reqs EXCEPT ![p][s] =
                  IF @.pc = "streaming" THEN handleError(@)
                  ELSE [@ EXCEPT !.ipipe = "failed"]]
    /\ UNCHANGED <<rules, seq, requests, files, now, probe, inspector, conn>>

\* The request stream, once flowing, emits its next body chunk: to the
\* upstream request it is piped into (fetch, line 319) and to the
\* inspector's data listener (inspector.ts lines 79-82).
RequestData(p, s) ==
    /\ s \in 1..Len(reqs[p])
    /\ ~reqs[p][s].paused
    /\ reqs[p][s].rin < Len(reqs[p][s].body)
    /\ LET r     == reqs[p][s]
           chunk == r.body[r.rin + 1]
       IN  reqs' = [reqs EXCEPT ![p][s] =
                      [r EXCEPT !.rin = @ + 1,
                                !.ev = Append(@, "data"),
                                !.upbody = IF r.fetched # <<>> /\ r.pc # "destroyed"
                                           THEN Append(@, chunk) ELSE @,
                                !.ireq = IF r.insp THEN Append(@, chunk) ELSE @]]
    /\ UNCHANGED <<rules, seq, requests, files, now, probe, inspector, conn>>

\* A second passes, up to limit seconds.
Elapse(limit) ==
    /\ now < limit * MsPerSec
    /\ now' = now + MsPerSec
    /\ UNCHANGED <<rules, seq, reqs, requests, files, probe, inspector, conn>>

Tick == Elapse(MaxTicks)

\* A timer armed by saveEntries fires, at or after its time: index.json is
\* written (inspector.ts lines 119-122).
SaveTimer(p) ==
    /\ \E x \in inspector[p].timers :
          /\ x.due <= now
          /\ inspector' = [inspector EXCEPT
                             ![p].timers = @ \ {x},
                             ![p].writes = @ \cup {[id |-> x.id, at |-> x.at, time |-> now]}]
    /\ UNCHANGED <<rules, seq, reqs, requests, files, now, probe, conn>>

\* ------------------------------------------------- listeners and CONNECT
\* Bounds of the CONNECT model: bridges opened, bytes each side sends.
MaxBridges == 1
MaxBytes == 2

NotEnabled == "https proxy not enabled!"
Established == "HTTP/1.1 200 Connection Established"

\* Codes of the socket errors the pipeline callback swallows.
SwallowedCodes == {"ECONNRESET", "EPIPE"}

\* A proxy constructed with options.sslCert (cert: "none", "valid" or
\* "invalid" key/certificate files) and not started.
NewServers(cert) ==
    [cert     |-> cert,
     phase    |-> "new",      \* start(): not called, "started", or "threw"
     http     |-> FALSE,      \* this.httpServer is listening
     https    |-> FALSE,      \* this.httpsServer is set
     bridges  |-> <<>>,
     errors   |-> <<>>,       \* onError notifications of the listeners and bridges
     uncaught |-> 0]          \* 'error' events emitted with no listener

\* A started proxy with no root CA configured.
Listening == [NewServers("none") EXCEPT !.phase = "started", !.http = TRUE]

\* SimpleProxy.startHttpServer
startHttpServer(c) == [c EXCEPT !.http = TRUE]

\* SimpleProxy.start: startHttpsServer, then startHttpServer.  Reading or
\* parsing an invalid key/certificate throws out of startHttpsServer and so
\* out of start.
start(c) ==
    IF c.cert = "invalid"
    THEN [c EXCEPT !.phase = "threw"]
    ELSE startHttpServer([c EXCEPT !.phase = "started", !.https = (c.cert = "valid")])

\* The bridge of one CONNECT request: head is the buffered bytes of the
\* client's request; toClient and toTls are the bytes written to the client
\* socket and to the socket of the internal TLS listener, in order; cin and
\* tin are bytes received from either side and not yet piped on.
NewBridge(head) ==
    [pc |-> "new", head |-> head, toClient |-> <<>>, toTls |-> <<>>,
     cin |-> <<>>, tin |-> <<>>, csent |-> 0, tsent |-> 0,
     connects |-> 0, faults |-> <<>>]

\* onConnect (lines 230-235).
onConnect(c, head) ==
    IF ~c.https
    THEN [NewBridge(head) EXCEPT !.pc = "ended", !.toClient = <<NotEnabled>>]
    ELSE [NewBridge(head) EXCEPT !.pc = "connecting", !.connects = 1]

\* The connect callback with the head written after the sockets are piped.
onConnectedPipeFirst(b) ==
    [b EXCEPT !.pc = "piped", !.toClient = Append(@, Established),
              !.toTls = @ \o b.cin \o b.head, !.cin = <<>>]

\* The connect callback (lines 236-242): the 200 line, the head, the pipes.
onConnected(b) ==
    [b EXCEPT !.pc = "piped", !.toClient = Append(@, Established),
              !.toTls = @ \o b.head]

\* The callback of the bridge's pipeline for a socket error (lines 239-242).
Reported(code) == code \notin SwallowedCodes

\* A socket error on a bridge: the pipeline callback sees it once the sockets
\* are piped; before that neither socket has an 'error' listener.
onSocketError(b, side, code) ==
    IF b.pc = "piped"
    THEN [b EXCEPT !.pc = "closed",
                   !.faults = Append(@, [side |-> side, code |-> code, handled |-> TRUE,
                                         reported |-> Reported(code)])]
    ELSE [b EXCEPT !.pc = "crashed",
                   !.faults = Append(@, [side |-> side, code |-> code, handled |-> FALSE,
                                         reported |-> FALSE])]

\* ----------------------------------------------------------- specifications
NoProbe == [t |-> "none"]

\* After construction: no rules, no requests, an empty cache directory.
Init ==
    /\ rules = [p \in Proxies |-> <<>>]
    /\ seq = [p \in Proxies |-> 0]
    /\ reqs = [p \in Proxies |-> <<>>]
    /\ requests = <<>>
    /\ files = <<>>
    /\ now = 0
    /\ probe = NoProbe
    /\ inspector = [p \in Proxies |-> NewInspector(FALSE, now)]
    /\ conn = Listening

\* The dispatch engine of one proxy instance under any rule list.
Next ==
    \/ \E rule \in RuleChoices \ {CustomRule} : AddRule("A", rule)
    \/ AddCustomRule("A", CustomRule)
    \/ \E rq \in DispatchRequests : seq["A"] < MaxSeq /\ forwardRequest("A", rq)
    \/ \E s \in 1..Len(reqs["A"]) : HookSettle("A", s)
    \/ \E s \in 1..Len(reqs["A"]), resp \in UpstreamResponses :
          UpstreamResponse("A", s, resp)
    \/ \E s \in 1..Len(reqs["A"]), resp \in UpstreamResponses :
          UpstreamResponseCustom("A", s, resp)
    \/ \E s \in 1..Len(reqs["A"]) : UpstreamError("A", s)
    \/ \E s \in 1..Len(reqs["A"]) : PumpUpstream("A", s)
    \/ \E s \in 1..Len(reqs["A"]) : PumpFile("A", s)
    \/ \E s \in 1..Len(reqs["A"]) : StreamError("A", s)

Spec == Init /\ [][Next]_vars

\* Proxy instances configured with cache|/a|1 and cache|/b; all use the
\* default cache directory.
CacheRequests == {Req("GET", PathA, HostX), Req("GET", PathB, HostX)}

InitCache ==
    /\ rules = [p \in Proxies |-> <<CacheRuleTtl, CacheRuleNoTtl>>]
    /\ seq = [p \in Proxies |-> 0]
    /\ reqs = [p \in Proxies |-> <<>>]
    /\ requests = <<>>
    /\ files = <<>>
    /\ now = 0
    /\ probe = NoProbe
    /\ inspector = [p \in Proxies |-> NewInspector(FALSE, now)]
    /\ conn = Listening

\* The origin behind the cached paths answers 200 with a two-chunk body.
CacheResponses == {r \in UpstreamResponses : r.statusCode = 200}

\* One proxy instance serving requests through its cache rules.
NextCache ==
    \/ \E rq \in CacheRequests : seq["A"] < MaxCacheSeq /\ forwardRequest("A", rq)
    \/ \E s \in 1..Len(reqs["A"]), resp \in CacheResponses :
          UpstreamResponseCache("A", s, resp)
    \/ \E s \in 1..Len(reqs["A"]) : UpstreamError("A", s)
    \/ \E s \in 1..Len(reqs["A"]) : PumpUpstream("A", s)
    \/ \E s \in 1..Len(reqs["A"]) : PumpFile("A", s)
    \/ Tick

SpecCache == InitCache /\ [][NextCache]_vars

\* One proxy instance serving repeated requests for the URL cached under
\* cache|/a|1, while time passes; the origin answers 200 with a body of one
\* chunk.
NextHit ==
    \/ seq["A"] < MaxHitSeq /\ forwardRequest("A", Req("GET", PathA, HostX))
    \/ \E s \in 1..Len(reqs["A"]), resp \in CacheResponses :
          UpstreamResponseCache("A", s, [resp EXCEPT !.body = <<Head(@)>>])
    \/ \E s \in 1..Len(reqs["A"]) : PumpUpstream("A", s)
    \/ \E s \in 1..Len(reqs["A"]) : PumpFile("A", s)
    \/ Tick

SpecHit == InitCache /\ [][NextHit]_vars

\* Two proxy instances in one process, both serving requests through their
\* cache rules.
NextProcess ==
    \/ \E p \in Proxies, rq \in CacheRequests : seq[p] < MaxSeq /\ forwardRequest(p, rq)
    \/ \E p \in Proxies : \E s \in 1..Len(reqs[p]), resp \in UpstreamResponses :
          UpstreamResponseCache(p, s, resp)
    \/ \E p \in Proxies : \E s \in 1..Len(reqs[p]) : UpstreamError(p, s)
    \/ \E p \in Proxies : \E s \in 1..Len(reqs[p]) : PumpUpstream(p, s)
    \/ \E p \in Proxies : \E s \in 1..Len(reqs[p]) : PumpFile(p, s)
    \/ \E p \in Proxies : \E s \in 1..Len(reqs[p]) : StreamError(p, s)
    \/ Tick

SpecProcess == InitCache /\ [][NextProcess]_vars

\* One proxy instance with an inspector attached and one rule registered.
InitInspect ==
    /\ \E rule \in {DelayRule, ContentRule, FileRule, ForwardRule, CustomRule,
                    CacheRuleNoTtl} : rules = [p \in Proxies |-> <<rule>>]
    /\ seq = [p \in Proxies |-> 0]
    /\ reqs = [p \in Proxies |-> <<>>]
    /\ requests = <<>>
    /\ files = <<>>
    /\ now = 0
    /\ probe = NoProbe
    /\ inspector = [p \in Proxies |-> NewInspector(p = "A", now)]
    /\ conn = Listening

NextInspect ==
    \/ \E rq \in DispatchRequests : seq["A"] < MaxSeq /\ forwardRequest("A", rq)
    \/ \E s \in 1..Len(reqs["A"]) : HookSettle("A", s)
    \/ \E s \in 1..Len(reqs["A"]), resp \in CacheResponses :
          UpstreamResponse("A", s, resp)
    \/ \E s \in 1..Len(reqs["A"]), resp \in CacheResponses :
          UpstreamResponseCache("A", s, resp)
    \/ \E s \in 1..Len(reqs["A"]), resp \in CacheResponses :
          UpstreamResponseCustom("A", s, resp)
    \/ \E s \in 1..Len(reqs["A"]) : UpstreamError("A", s)
    \/ \E s \in 1..Len(reqs["A"]) : PumpUpstream("A", s)
    \/ \E s \in 1..Len(reqs["A"]) : PumpFile("A", s)
    \/ \E s \in 1..Len(reqs["A"]) : StreamError("A", s)
    \/ \E s \in 1..Len(reqs["A"]) : InspectorEnd("A", s)
    \/ \E s \in 1..Len(reqs["A"]) : InspectorError("A", s)
    \/ \E s \in 1..Len(reqs["A"]) : RequestData("A", s)

SpecInspect == InitInspect /\ [][NextInspect]_vars

\* Seconds the journal specification lets pass.
MaxJournalTicks == 5

\* One proxy instance with an inspector constructed a second ago, a content
\* rule for /a, and the journal's timers running.
InitJournal ==
    /\ rules = [p \in Proxies |-> <<ContentRule>>]
    /\ seq = [p \in Proxies |-> 0]
    /\ reqs = [p \in Proxies |-> <<>>]
    /\ requests = <<>>
    /\ files = <<>>
    /\ now = MsPerSec
    /\ probe = NoProbe
    /\ inspector = [p \in Proxies |-> NewInspector(p = "A", 0)]
    /\ conn = Listening

NextJournal ==
    \/ \E rq \in DispatchRequests : seq["A"] < MaxSeq /\ forwardRequest("A", rq)
    \/ \E s \in 1..Len(reqs["A"]), resp \in CacheResponses :
          UpstreamResponse("A", s, resp)
    \/ \E s \in 1..Len(reqs["A"]) : PumpUpstream("A", s)
    \/ \E s \in 1..Len(reqs["A"]) : InspectorEnd("A", s)
    \/ Elapse(MaxJournalTicks)
    \/ SaveTimer("A")

SpecJournal == InitJournal /\ [][NextJournal]_vars

\* One proxy instance with a content rule for /a configured with any value.
InitContent ==
    /\ \E v \in ContentValues :
          rules = [p \in Proxies |-> <<[ContentRule EXCEPT !.args = v]>>]
    /\ seq = [p \in Proxies |-> 0]
    /\ reqs = [p \in Proxies |-> <<>>]
    /\ requests = <<>>
    /\ files = <<>>
    /\ now = 0
    /\ probe = NoProbe
    /\ inspector = [p \in Proxies |-> NewInspector(FALSE, now)]
    /\ conn = Listening

NextContent ==
    \/ \E rq \in DispatchRequests : seq["A"] < MaxSeq /\ forwardRequest("A", rq)
    \/ \E s \in 1..Len(reqs["A"]), resp \in UpstreamResponses :
          UpstreamResponse("A", s, resp)
    \/ \E s \in 1..Len(reqs["A"]) : UpstreamError("A", s)
    \/ \E s \in 1..Len(reqs["A"]) : PumpUpstream("A", s)

SpecContent == InitContent /\ [][NextContent]_vars

\* ------------------------------------------------------- CONNECT actions
\* The k-th byte the client, or the internal TLS listener, sends on a bridge.
ClientByte(k) == <<"c", k>>
TlsByte(k) == <<"t", k>>

SetBridge(b, bridge) == [conn EXCEPT !.bridges[b] = bridge]

\* SimpleProxy.start
Start ==
    /\ conn.phase = "new"
    /\ conn' = start(conn)
    /\ UNCHANGED <<rules, seq, reqs, requests, files, now, probe, inspector>>

\* The plain listener emits 'connect'.
Connect(head) ==
    /\ conn.http
    /\ Len(conn.bridges) < MaxBridges
    /\ conn' = [conn EXCEPT !.bridges = Append(@, onConnect(conn, head))]
    /\ UNCHANGED <<rules, seq, reqs, requests, files, now, probe, inspector>>

\* The TCP connection to the internal TLS listener is established.
TcpEstablished(b) ==
    /\ b \in 1..Len(conn.bridges)
    /\ conn.bridges[b].pc = "connecting"
    /\ conn' = SetBridge(b, [conn.bridges[b] EXCEPT !.pc = "established"])
    /\ UNCHANGED <<rules, seq, reqs, requests, files, now, probe, inspector>>

\* The connect callback of net.connect runs.
Connected(b) ==
    /\ b \in 1..Len(conn.bridges)
    /\ conn.bridges[b].pc = "established"
    /\ conn' = SetBridge(b, onConnected(conn.bridges[b]))
    /\ UNCHANGED <<rules, seq, reqs, requests, files, now, probe, inspector>>

\* The client sends a byte; it waits in the client socket until piped on.
ClientSends(b) ==
    /\ b \in 1..Len(conn.bridges)
    /\ conn.bridges[b].pc \in {"connecting", "established", "piped"}
    /\ conn.bridges[b].csent < MaxBytes
    /\ conn' = SetBridge(b, [conn.bridges[b] EXCEPT
                                !.csent = @ + 1,
                                !.cin = Append(@, ClientByte(conn.bridges[b].csent + 1))])
    /\ UNCHANGED <<rules, seq, reqs, requests, files, now, probe, inspector>>

\* The internal TLS listener sends a byte on the established connection.
TlsSends(b) ==
    /\ b \in 1..Len(conn.bridges)
    /\ conn.bridges[b].pc \in {"established", "piped"}
    /\ conn.bridges[b].tsent < MaxBytes
    /\ conn' = SetBridge(b, [conn.bridges[b] EXCEPT
                                !.tsent = @ + 1,
                                !.tin = Append(@, TlsByte(conn.bridges[b].tsent + 1))])
    /\ UNCHANGED <<rules, seq, reqs, requests, files, now, probe, inspector>>

\* pipeline(clientSocket, forwardSocket, clientSocket): client to listener.
PumpClient(b) ==
    /\ b \in 1..Len(conn.bridges)
    /\ conn.bridges[b].pc = "piped"
    /\ conn.bridges[b].cin # <<>>
    /\ conn' = SetBridge(b, [conn.bridges[b] EXCEPT
                                !.toTls = Append(@, Head(conn.bridges[b].cin)),
                                !.cin = Tail(@)])
    /\ UNCHANGED <<rules, seq, reqs, requests, files, now, probe, inspector>>

\* pipeline(clientSocket, forwardSocket, clientSocket): listener to client.
PumpTls(b) ==
    /\ b \in 1..Len(conn.bridges)
    /\ conn.bridges[b].pc = "piped"
    /\ conn.bridges[b].tin # <<>>
    /\ conn' = SetBridge(b, [conn.bridges[b] EXCEPT
                                !.toClient = Append(@, Head(conn.bridges[b].tin)),
                                !.tin = Tail(@)])
    /\ UNCHANGED <<rules, seq, reqs, requests, files, now, probe, inspector>>

\* A socket of the bridge emits 'error': a failed connection attempt on the
\* forward socket, or any error on either socket afterwards.
SocketError(b, side, code) ==
    /\ b \in 1..Len(conn.bridges)
    /\ conn.bridges[b].pc \in {"connecting", "established", "piped"}
    /\ LET nb == onSocketError(conn.bridges[b], side, code)
           f  == nb.faults[Len(nb.faults)]
       IN  conn' = [conn EXCEPT
                      !.bridges[b] = nb,
                      !.errors = IF f.reported THEN Append(@, "CONNECT") ELSE @,
                      !.uncaught = IF f.handled THEN @ ELSE @ + 1]
    /\ UNCHANGED <<rules, seq, reqs, requests, files, now, probe, inspector>>

\* A proxy constructed with or without a root CA, with one content rule.
InitConnect ==
    /\ rules = [p \in Proxies |-> <<ContentRule>>]
    /\ seq = [p \in Proxies |-> 0]
    /\ reqs = [p \in Proxies |-> <<>>]
    /\ requests = <<>>
    /\ files = <<>>
    /\ now = 0
    /\ probe = NoProbe
    /\ inspector = [p \in Proxies |-> NewInspector(FALSE, now)]
    /\ \E cert \in {"none", "valid", "invalid"} : conn = NewServers(cert)

NextConnect ==
    \/ Start
    \/ \E head \in {<<>>, <<"h1">>, <<"h1", "h2">>} : Connect(head)
    \/ \E b \in 1..Len(conn.bridges) : TcpEstablished(b)
    \/ \E b \in 1..Len(conn.bridges) : Connected(b)
    \/ \E b \in 1..Len(conn.bridges) : ClientSends(b)
    \/ \E b \in 1..Len(conn.bridges) : TlsSends(b)
    \/ \E b \in 1..Len(conn.bridges) : PumpClient(b)
    \/ \E b \in 1..Len(conn.bridges) : PumpTls(b)

SpecConnect == InitConnect /\ [][NextConnect]_vars

\* The listeners with socket errors on the bridges and the plain listener
\* dispatching requests.
NextStart ==
    \/ NextConnect
    \/ \E b \in 1..Len(conn.bridges), side \in {"client", "forward"},
          code \in SwallowedCodes \cup {"ETIMEDOUT", "ECONNREFUSED"} :
          SocketError(b, side, code)
    \/ \E rq \in DispatchRequests :
          conn.http /\ seq["A"] < MaxSeq /\ forwardRequest("A", rq)
    \/ \E s \in 1..Len(reqs["A"]), resp \in CacheResponses :
          UpstreamResponse("A", s, resp)
    \/ \E s \in 1..Len(reqs["A"]) : PumpUpstream("A", s)

SpecStart == InitConnect /\ [][NextStart]_vars

\* The cache-key computation on its own: two requests, each under a rule with
\* its own cacheByQuery flag.
KeyRequests ==
    {Req(m, u \o q, h) : m \in {"GET", "POST"}, u \in {PathA, PathB},
                         q \in {<<>>, <<"?">>, QueryP, QueryQ, QueryR},
                         h \in {HostX, <<"y", ":", "8">>}}

InitKey ==
    /\ rules = [p \in Proxies |-> <<>>]
    /\ seq = [p \in Proxies |-> 0]
    /\ reqs = [p \in Proxies |-> <<>>]
    /\ requests = <<>>
    /\ files = <<>>
    /\ now = 0
    /\ \E a \in KeyRequests, b \in KeyRequests, fa \in BOOLEAN, fb \in BOOLEAN :
          probe = [t |-> "input", a |-> a, b |-> b, byQueryA |-> fa, byQueryB |-> fb]
    /\ inspector = [p \in Proxies |-> NewInspector(FALSE, now)]
    /\ conn = Listening

\* getCacheFile is applied to both requests.
SelectKeys ==
    /\ probe.t = "input"
    /\ probe' = [t |-> "keys", a |-> probe.a, b |-> probe.b,
                 byQueryA |-> probe.byQueryA, byQueryB |-> probe.byQueryB,
                 fileA |-> getCacheFile(files, probe.a, probe.byQueryA),
                 fileB |-> getCacheFile(files, probe.b, probe.byQueryB)]
    /\ UNCHANGED <<rules, seq, reqs, requests, files, now, inspector, conn>>

NextKey == SelectKeys

SpecKey == InitKey /\ [][NextKey]_vars


\* ------------------------------------------------------------------ claims
\* All requests intercepted so far, as <<proxy, seq>>.
Intercepted == UNION {{<<p, s>> : s \in 1..Len(reqs[p])} : p \in Proxies}

R(ps) == reqs[ps[1]][ps[2]]

\* The request's rule list has a rule at index i that accepts the request as
\* it was intercepted.
Accepts(ps, i) == RuleMatch(rules[ps[1]][i], R(ps).orig)

NoRuleMatches(ps) == \A i \in 1..Len(rules[ps[1]]) : ~Accepts(ps, i)

\* The upstream fetch of the request's original URL, unchanged.
OriginalFetch(r) ==
    [url |-> BaseUrl(Http, r.orig.host, r.orig.url), host |-> r.orig.host,
     method |-> r.orig.method]

\* C1: the only rule whose request hook is invoked for a request is the
\* earliest-registered rule whose matcher accepts host+url; when no rule
\* matches, no hook runs and the request is fetched from its original URL
\* unchanged.
C1_FirstMatchWins ==
    \A ps \in Intercepted :
        /\ \A i \in R(ps).hooks :
              /\ Accepts(ps, i)
              /\ \A j \in 1..(i - 1) : ~Accepts(ps, j)
        /\ NoRuleMatches(ps) =>
              /\ R(ps).hooks = {}
              /\ R(ps).fetched = <<OriginalFetch(R(ps))>>

\* C1 witness: two registered rules accept a request and the hook of the
\* first one, only, has run.
C1_Witness ==
    \E ps \in Intercepted :
        /\ Len(rules[ps[1]]) >= 2
        /\ Accepts(ps, 1) /\ Accepts(ps, 2)
        /\ rules[ps[1]][1] # rules[ps[1]][2]
        /\ R(ps).hooks = {1}

\* The response sink is as the engine received it: nothing written.
Untouched(res) ==
    /\ res.statusCode = 0 /\ res.headers = {} /\ res.body = <<>>
    /\ ~res.flushed /\ ~res.ended /\ ~res.destroyed

\* The engine took the synthesis branch: the CORS origin header is set and
\* a response head is written locally.
Synthesized(r) ==
    /\ "Access-Control-Allow-Origin" \in r.res.headers
    /\ r.res.statusCode # 0

\* C2: once the hook's result is available exactly one dispatch outcome
\* occurs: false -> nothing written and no fetch; null/undefined/true -> one
\* fetch of the original URL; a URL -> one fetch of that URL; anything else
\* -> a locally synthesized response and no fetch.
C2_OneOutcome ==
    \A ps \in Intercepted :
        LET r == R(ps)
        IN  /\ r.rt.t = "false" => Untouched(r.res) /\ r.fetched = <<>>
            /\ r.rt.t \in {"null", "undefined", "true"} =>
                  /\ Len(r.fetched) = 1
                  /\ r.fetched[1].url = BaseUrl(Http, r.orig.host, r.orig.url)
                  /\ ~Synthesized(r)
            /\ r.rt.t = "url" =>
                  /\ Len(r.fetched) = 1
                  /\ r.fetched[1].url = r.rt.url
                  /\ ~Synthesized(r)
            /\ r.rt.t \in {"string", "stream", "error", "object", "response"} =>
                  /\ r.fetched = <<>>
                  /\ Synthesized(r)

\* C2 witness: a hook has returned false and dispatch has ended there.
C2_Witness ==
    \E ps \in Intercepted : R(ps).rt.t = "false" /\ R(ps).pc = "suppressed"

\* The 204 preflight answer with the three permissive CORS headers.
PreflightAnswer(r) ==
    /\ r.res.statusCode = 204
    /\ r.res.headers = CorsHeaders
    /\ r.res.ended
    /\ r.hooks = {}
    /\ r.fetched = <<>>

\* C3: an OPTIONS request gets the 204 CORS answer, with no hook invoked and
\* no upstream fetch, if and only if some rule matches it; an unmatched
\* OPTIONS request is forwarded upstream like any unmatched request.
C3_Preflight ==
    \A ps \in Intercepted :
        R(ps).orig.method = "OPTIONS" =>
            /\ PreflightAnswer(R(ps)) <=> ~NoRuleMatches(ps)
            /\ NoRuleMatches(ps) => R(ps).fetched = <<OriginalFetch(R(ps))>>

\* C3 witness: a matched OPTIONS request has been answered with 204.
C3_Witness ==
    \E ps \in Intercepted :
        /\ R(ps).orig.method = "OPTIONS"
        /\ ~NoRuleMatches(ps)
        /\ PreflightAnswer(R(ps))


\* The rule that handles the request, for a request that matched one.
RuleOf(ps) == rules[ps[1]][R(ps).rule]

\* The client has received a complete response.
Delivered(res) == res.flushed /\ res.ended /\ ~res.destroyed

\* C4: a request that matches a file rule whose path is missing is answered
\* with status 404, and no upstream fetch is made.
C4_MissingFile404 ==
    \A ps \in Intercepted :
        (/\ R(ps).hooks # {}
         /\ RuleOf(ps).name = "file"
         /\ RuleOf(ps).args.path \notin DOMAIN DiskFiles)
        => /\ Delivered(R(ps).res)
           /\ R(ps).res.statusCode = 404
           /\ R(ps).fetched = <<>>

\* C5: when a request hook returns an error value the client receives a
\* complete synthesized response with status 500 rather than a destroyed
\* connection.
C5_ErrorIs500 ==
    \A ps \in Intercepted :
        R(ps).rt.t = "error" =>
            /\ Delivered(R(ps).res)
            /\ R(ps).res.statusCode = 500

\* Dispatch of the request has met an error: the request hook threw or its
\* promise rejected, the response hook threw, the upstream fetch failed or
\* emission failed.
Failed(r) == r.pc \in {"uncaught", "unhandled", "destroyed"}

\* C6: an error raised at any stage of dispatch results in the response sink
\* being destroyed and exactly one error-sink notification of kind Forward.
C6_ErrorsReported ==
    \A ps \in Intercepted :
        Failed(R(ps)) => R(ps).res.destroyed /\ R(ps).errors = 1

\* The freshness rule as the cache contract states it: ttl unset, or
\* updateTime + ttl*1000 >= now.
FreshByContract(ttl, head, t) == ttl = Unset \/ head.updateTime + ttl * 1000 >= t

\* What holds of every request the cache request hook has seen with the head
\* file present: served from the entry, without a fetch, iff fresh; otherwise
\* fetched upstream.
C7_Decision ==
    \A ps \in Intercepted :
        LET r == R(ps)
        IN  (r.cache # NoCache /\ r.cache.head # NoHead) =>
                /\ r.cache.t = "hit" <=>
                      FreshByContract(RuleOf(ps).args.ttl, r.cache.head, r.cache.at)
                /\ r.cache.t = "hit" =>
                      /\ r.fetched = <<>>
                      /\ Synthesized(r)
                      /\ r.res.statusCode = r.cache.head.statusCode
                /\ r.cache.t = "miss" => r.fetched = <<OriginalFetch(r)>>

\* When the upstream response of a missed request arrives, the head of the
\* request's entry is written with the time of that moment.
C7_Rewrite ==
    \A p \in Proxies : \A s \in 1..Len(reqs[p]) :
        (/\ reqs[p][s].cache # NoCache
         /\ reqs[p][s].pc = "fetching"
         /\ reqs'[p][s].up # NoResponse)
        => /\ reqs[p][s].cache.file.headFile \in DOMAIN files'
           /\ files'[reqs[p][s].cache.file.headFile].updateTime = now
           /\ files'[reqs[p][s].cache.file.headFile].by = <<p, s>>

\* C7: a request matching a cache rule whose head file exists is served from
\* the entry with no upstream fetch iff ttl is unset or
\* updateTime + ttl*1000 >= now; otherwise it is fetched upstream and the
\* upstream response rewrites the entry's head with a new updateTime.
C7_Freshness == []C7_Decision /\ [][C7_Rewrite]_vars

\* C7 witness: an entry under a ttl is served at the last fresh instant,
\* updateTime + ttl*1000 = now, some time after it was written.
C7_Witness ==
    \E ps \in Intercepted :
        /\ R(ps).cache # NoCache
        /\ R(ps).cache.t = "hit"
        /\ RuleOf(ps).args.ttl # Unset
        /\ R(ps).cache.head.updateTime + RuleOf(ps).args.ttl * 1000 = R(ps).cache.at
        /\ R(ps).cache.at > R(ps).cache.head.updateTime
        /\ R(ps).res.ended

\* C8: whenever the cache request hook serves an entry, the body delivered is
\* the complete body of the upstream response written into that entry and
\* the status and headers are those of the same write.
C8_ServedIsWritten ==
    \A ps \in Intercepted :
        (R(ps).cache # NoCache /\ R(ps).cache.t = "hit" /\ R(ps).res.ended) =>
            LET w == R(R(ps).cache.head.by).up
            IN  /\ R(ps).res.body = w.body
                /\ R(ps).res.statusCode = w.statusCode
                /\ w.headers \in R(ps).res.headers

\* The components of an entry that name it on disk.
EntryOf(f) == <<f.dir, f.headFile, f.bodyFile>>

SameTriple(a, b) ==
    /\ a.host = b.host
    /\ PathOf(a.url) = PathOf(b.url)
    /\ a.method = b.method

\* The query takes part in the key of a request: the rule caches by query and
\* the URL has a query.
Keyed(rq, byQuery) == byQuery /\ SearchOf(QueryOf(rq.url)) # <<>>

\* C9: the key depends only on (host, path, method) when cacheByQuery is false
\* or the URL has no query; with cacheByQuery and a query the key also holds
\* the hash of the query, so different hashes select different entries;
\* different methods always select different entries.
C9_KeySelection ==
    probe.t = "keys" =>
        /\ (/\ SameTriple(probe.a, probe.b)
            /\ ~Keyed(probe.a, probe.byQueryA)
            /\ ~Keyed(probe.b, probe.byQueryB))
           => EntryOf(probe.fileA) = EntryOf(probe.fileB)
        /\ (/\ Keyed(probe.a, probe.byQueryA)
            /\ Keyed(probe.b, probe.byQueryB)
            /\ Md5(QueryOf(probe.a.url)) # Md5(QueryOf(probe.b.url)))
           => /\ probe.fileA.headFile # probe.fileB.headFile
              /\ probe.fileA.bodyFile # probe.fileB.bodyFile
        /\ (Keyed(probe.a, probe.byQueryA) /\ ~Keyed(probe.b, probe.byQueryB))
           => probe.fileA.headFile # probe.fileB.headFile
        /\ probe.a.method # probe.b.method
           => /\ probe.fileA.headFile # probe.fileB.headFile
              /\ probe.fileA.bodyFile # probe.fileB.bodyFile

\* C9 witness: two requests that differ only in their query string, under a
\* rule that does not cache by query, have selected the same entry.
C9_Witness ==
    /\ probe.t = "keys"
    /\ SameTriple(probe.a, probe.b)
    /\ SearchOf(QueryOf(probe.a.url)) # SearchOf(QueryOf(probe.b.url))
    /\ SearchOf(QueryOf(probe.a.url)) # <<>>
    /\ SearchOf(QueryOf(probe.b.url)) # <<>>
    /\ ~probe.byQueryA /\ ~probe.byQueryB
    /\ EntryOf(probe.fileA) = EntryOf(probe.fileB)

\* C10: each entry of the seq->key map is written by one request only, so the
\* response hook of a request writes the entry its own request hook
\* selected, also with more than one proxy instance in the process.
C10_SingleWriter ==
    /\ \A s \in DOMAIN requests :
          Cardinality({p \in Proxies :
                          /\ s <= Len(reqs[p])
                          /\ reqs[p][s].cache # NoCache
                          /\ reqs[p][s].cache.t = "miss"}) <= 1
    /\ \A ps \in Intercepted :
          (R(ps).cache # NoCache /\ R(ps).rhooks # {}) =>
              R(ps).wfile = R(ps).cache.file.bodyFile

\* C11: every intercepted request has a positive seq, seqs grow in
\* interception order, and no two requests intercepted in the process share
\* a seq.
C11_SeqUnique ==
    \A a \in Intercepted, b \in Intercepted :
        /\ R(a).seq > 0
        /\ (a # b) => R(a).seq # R(b).seq
        /\ (a[1] = b[1] /\ a[2] < b[2]) => R(a).seq < R(b).seq

\* The place of an event in the order of one request's events (0: an event
\* the order does not name).
Rank(e) ==
    CASE e = "Inspector.onRequest" -> 1
      [] e = "onRequest"           -> 2
      [] e = "fetch"               -> 3
      [] e = "onResponse"          -> 4
      [] e = "Inspector.onRespond" -> 5
      [] e = "body"                -> 6
      [] e = "onResponseEnd"       -> 7
      [] OTHER                     -> 0

Happened(ps, e) == \E k \in 1..Len(R(ps).ev) : R(ps).ev[k] = e

\* The request is fetched upstream under a rule with a response hook, with
\* an inspector attached.
HookedFetch(ps) ==
    /\ R(ps).insp
    /\ R(ps).rule # 0
    /\ RuleOf(ps).name \in {"cache", "custom"}
    /\ Happened(ps, "fetch")

\* C12: within a request fetched upstream under a rule with a response hook
\* and an inspector, Inspector onRequest, the rule's onRequest, the fetch,
\* the rule's onResponse, Inspector onRespond, the body chunks sent to the
\* client and onResponseEnd happen in this order, each of them but the body
\* chunks once, and none without the ones before it.
C12_EventOrder ==
    \A ps \in Intercepted :
        HookedFetch(ps) =>
            LET ev == R(ps).ev
            IN  /\ \A j \in 1..Len(ev), k \in 1..Len(ev) :
                      (j < k /\ Rank(ev[j]) > 0 /\ Rank(ev[k]) > 0) =>
                          \/ Rank(ev[j]) < Rank(ev[k])
                          \/ ev[j] = "body" /\ ev[k] = "body"
                /\ \A k \in 1..Len(ev) :
                      Rank(ev[k]) > 1 =>
                          \A n \in 1..(Rank(ev[k]) - 1) :
                              \E j \in 1..(k - 1) : Rank(ev[j]) = n

\* C12 witness: such a request has gone through all seven events.
C12_Witness ==
    \E ps \in Intercepted :
        /\ HookedFetch(ps)
        /\ Happened(ps, "onResponseEnd")
        /\ R(ps).res.body = R(ps).up.body
        /\ R(ps).ifile = R(ps).up.body

\* C13: when a response has been emitted and its body has ended without
\* error, and no inspector pipeline of the request is still running,
\* onResponseEnd has been called for the request.
C13_ResponseEnd ==
    \A ps \in Intercepted :
        (/\ R(ps).insp
         /\ Happened(ps, "Inspector.onRespond")
         /\ R(ps).res.ended
         /\ ~R(ps).res.destroyed
         /\ R(ps).ipipe \notin {"piping", "failed"})
        => R(ps).iend >= 1

\* The headers of a journal entry as the journal shows them: the present
\* content of the headers object the entry refers to.
JournalHost(p, h) == reqs[p][h.ref].req.host

\* C14: the journal has an entry at the seq of every intercepted request and
\* its req fields are the url, method, version and headers of the request as
\* it was intercepted.
C14_JournalReq ==
    \A ps \in Intercepted :
        R(ps).insp =>
            /\ ps[2] \in DOMAIN inspector[ps[1]].entries
            /\ LET e == inspector[ps[1]].entries[ps[2]]
               IN  /\ e.seq = R(ps).seq
                   /\ e.req.url = R(ps).orig.url
                   /\ e.req.method = R(ps).orig.method
                   /\ e.req.httpVersion = "1.1"
                   /\ JournalHost(ps[1], e.req.headers) = R(ps).orig.host

\* The engine has chosen where the request goes.
Chosen(ps) ==
    \E k \in 1..Len(R(ps).ev) : R(ps).ev[k] \in {"fetch", "synthesize", "preflight"}

\* C19: the request stream emits no body chunk before the engine has chosen
\* the upstream fetch or a synthesized response or has taken the OPTIONS
\* short-circuit; until then the request stays paused (so while a delay rule
\* is waiting) and no consumer has received anything.
C19_PausedUntilChosen ==
    \A ps \in Intercepted :
        /\ \A k \in 1..Len(R(ps).ev) :
              R(ps).ev[k] = "data" =>
                  \E j \in 1..(k - 1) :
                      R(ps).ev[j] \in {"fetch", "synthesize", "preflight"}
        /\ ~Chosen(ps) =>
              /\ R(ps).paused
              /\ R(ps).rin = 0
              /\ R(ps).upbody = <<>>
              /\ R(ps).ireq = <<>>

\* C19 witness: a request held by a delay rule has then been fetched and its
\* body has reached the upstream request and the inspector.
C19_Witness ==
    \E ps \in Intercepted :
        /\ R(ps).rule # 0
        /\ RuleOf(ps).name = "delay"
        /\ R(ps).upbody = R(ps).body
        /\ R(ps).ireq = R(ps).body
        /\ R(ps).body # <<>>

Bridges == 1..Len(conn.bridges)

\* The first n bytes a side has sent, in order.
ClientBytes(n) == [k \in 1..n |-> ClientByte(k)]
TlsBytes(n) == [k \in 1..n |-> TlsByte(k)]

\* C15: without an internal TLS listener a CONNECT is answered "https proxy
\* not enabled!" and nothing is connected; with one, nothing is written
\* before the connection is established, the client receives the 200 line
\* first and then the listener's bytes in order, and the listener receives
\* the head bytes first and then the client's bytes in order.
C15_ConnectOrder ==
    \A b \in Bridges :
        LET br == conn.bridges[b]
        IN  /\ ~conn.https =>
                  /\ br.connects = 0
                  /\ br.toClient = <<NotEnabled>>
                  /\ br.toTls = <<>>
            /\ conn.https =>
                  /\ br.connects = 1
                  /\ br.pc \in {"connecting", "established"} =>
                        br.toClient = <<>> /\ br.toTls = <<>>
                  /\ br.toClient # <<>> =>
                        br.toClient = <<Established>> \o TlsBytes(Len(br.toClient) - 1)
                  /\ br.toTls # <<>> =>
                        /\ Len(br.toTls) >= Len(br.head)
                        /\ br.toTls = br.head \o ClientBytes(Len(br.toTls) - Len(br.head))
                  /\ br.pc = "piped" => br.toClient # <<>>

\* C15 witness: a bridge with head bytes, on which the client sent before the
\* sockets were piped, has carried bytes both ways.
C15_Witness ==
    \E b \in Bridges :
        /\ conn.bridges[b].pc = "piped"
        /\ conn.bridges[b].head # <<>>
        /\ Len(conn.bridges[b].toTls) > Len(conn.bridges[b].head)
        /\ Len(conn.bridges[b].toClient) > 1

\* C16: every socket error of a bridge with code ECONNRESET or EPIPE gives
\* no notification, every other one gives a notification of kind Connect,
\* and there are no other Connect notifications.
C16_BridgeErrors ==
    /\ \A b \in Bridges :
          \A k \in 1..Len(conn.bridges[b].faults) :
              LET f == conn.bridges[b].faults[k]
              IN  f.reported <=> (f.code \notin {"ECONNRESET", "EPIPE"})
    /\ \A k \in 1..Len(conn.errors) : conn.errors[k] = "CONNECT"

\* C17: once start() was called with an invalid root CA, the plain listener
\* is up, the internal TLS listener is not, and every CONNECT is answered
\* "https proxy not enabled!".
C17_PlainSurvives ==
    (conn.cert = "invalid" /\ conn.phase # "new") =>
        /\ conn.http
        /\ ~conn.https
        /\ \A b \in Bridges : conn.bridges[b].toClient = <<NotEnabled>>

\* C18: no write of index.json happens sooner than 2000 ms after the update
\* that scheduled it, and no two writes come from updates less than 2000 ms
\* apart (a burst gives one write).
C18_Coalesce ==
    LET w == inspector["A"].writes
    IN  /\ \A x \in w : x.time - x.at >= 2000
        /\ \A x \in w, y \in w :
              (x.id # y.id /\ x.at <= y.at) => y.at - x.at >= 2000

\* The body the content rule is to answer with for the values configured:
\* the JSON text of an object, the string form of anything else.
ContentBody(v) ==
    CASE v = Str(<<"w">>)          -> <<"w">>
      [] v = Str(<<>>)             -> <<>>
      [] v = Num(0)                -> <<"0">>
      [] v = Num(42)               -> <<"4", "2">>
      [] v = Bool(FALSE)           -> <<"f", "a", "l", "s", "e">>
      [] v = Bool(TRUE)            -> <<"t", "r", "u", "e">>
      [] v = Obj(<<<<"k", "v">>>>) -> <<"{", "\"", "k", "\"", ":", "\"", "v", "\"", "}">>
      [] v = Obj(<<>>)             -> <<"{", "}">>
      [] v = Null                  -> <<"n", "u", "l", "l">>
      [] v = Undefined             -> <<"u", "n", "d", "e", "f", "i", "n", "e", "d">>

\* C20: a request handled by a content rule is answered, with no upstream
\* fetch, by status 200, Access-Control-Allow-Origin and the body of the
\* configured value.
C20_ContentAnswer ==
    \A ps \in Intercepted :
        (R(ps).rule # 0 /\ R(ps).hooks # {} /\ RuleOf(ps).name = "content") =>
            /\ R(ps).fetched = <<>>
            /\ Delivered(R(ps).res)
            /\ R(ps).res.statusCode = 200
            /\ "Access-Control-Allow-Origin" \in R(ps).res.headers
            /\ R(ps).res.body = <<ContentBody(RuleOf(ps).args)>>

\* The cache request hook has served request ps from an entry.
Hit(ps) == R(ps).cache # NoCache /\ R(ps).cache.t = "hit"

\* The head file h as it is on disk fs, or none.
HeadAt(fs, h) == IF h \in DOMAIN fs THEN fs[h] ELSE NoHead

\* A request served from an entry never has the rule's response hook
\* invoked, has no body file it writes, is not the writer of the entry's
\* head file and has no seq->key record.
C21_HitFrame ==
    \A ps \in Intercepted :
        Hit(ps) =>
            /\ R(ps).rhooks = {}
            /\ ~Happened(ps, "onResponse")
            /\ R(ps).fetched = <<>>
            /\ R(ps).wfile = <<>>
            /\ HeadAt(files, R(ps).cache.file.headFile).by # ps
            /\ ps[2] \notin DOMAIN requests

\* The step in which the request hook serves an entry leaves every cache
\* file and the seq->key records as they are.
C21_HitStep ==
    \A p \in Proxies :
        (/\ Len(reqs'[p]) = Len(reqs[p]) + 1
         /\ reqs'[p][Len(reqs'[p])].cache.t = "hit")
        => files' = files /\ requests' = requests

\* The head file of an entry changes only in the step in which the upstream
\* response of a request that missed it arrives, and then carries the time
\* of that step.
C21_HeadWrites ==
    \A ps \in Intercepted :
        R(ps).cache # NoCache =>
            LET h == R(ps).cache.file.headFile
            IN  HeadAt(files', h) # HeadAt(files, h) =>
                    \E qs \in Intercepted :
                        /\ R(qs).cache # NoCache
                        /\ R(qs).cache.t = "miss"
                        /\ R(qs).cache.file.headFile = h
                        /\ R(qs).pc = "fetching"
                        /\ reqs'[qs[1]][qs[2]].up # NoResponse
                        /\ HeadAt(files', h) = HeadOf(reqs'[qs[1]][qs[2]].up, now,
                                                      qs[1], qs[2])

\* Every request that found the head of an entry under a ttl found the head
\* an upstream response wrote, and was served from the entry iff no more
\* than ttl seconds had passed since that write.
C21_Expiry ==
    \A ps \in Intercepted :
        (/\ R(ps).cache # NoCache
         /\ R(ps).cache.head # NoHead
         /\ RuleOf(ps).args.ttl # Unset)
        => /\ ~Hit(R(ps).cache.head.by)
           /\ R(R(ps).cache.head.by).up # NoResponse
           /\ Hit(ps) <=> R(ps).cache.at - R(ps).cache.head.updateTime
                              <= RuleOf(ps).args.ttl * 1000

\* C21: a cache hit leaves the cache unchanged: the rule's response hook is
\* not invoked, the head file (updateTime included) and the body file are
\* not written and no seq->key record is added; an entry under a ttl
\* therefore expires ttl seconds after its last upstream write, however many
\* hits there were in between.
C21_HitLeavesCache ==
    /\ [](C21_HitFrame /\ C21_Expiry)
    /\ [][C21_HitStep /\ C21_HeadWrites]_vars

\* C21 witness: an entry written by an upstream response is served, some
\* time after the write, to a request that ends; a later request finds the
\* same head, more than ttl seconds after the write, and misses.
C21_Witness ==
    \E ps \in Intercepted, qs \in Intercepted :
        /\ Hit(ps)
        /\ R(ps).res.ended
        /\ R(ps).cache.at > R(ps).cache.head.updateTime
        /\ R(qs).cache # NoCache
        /\ R(qs).cache.t = "miss"
        /\ R(qs).cache.head = R(ps).cache.head
        /\ R(qs).cache.at > R(ps).cache.at
        /\ R(qs).cache.at > R(qs).cache.head.updateTime + RuleOf(qs).args.ttl * 1000

====
